---------------------------- MODULE Spec2Model ----------------------------
(***************************************************************************)
(* Model of the VFX Market Pulse backend (src/server.js and                *)
(* src/scrapers/backstage.js): the scrape cycle of POST /api/scrape/:source*)
(* with its in-memory catalog (projectsCache) and per-source status        *)
(* (sourcesCache), run by the single-threaded Node.js event loop.          *)
(*                                                                         *)
(* Scheduling.  A handler is an async function.  It runs synchronously up  *)
(* to an `await`.  An await of a promise that is settled by file or        *)
(* network I/O (fs.writeFile, the adapter's retrieval) parks the handler   *)
(* until the event loop delivers the completion in a macrotask.  An await  *)
(* of an already settled promise (getProjects, which has no await inside)  *)
(* queues the continuation on the microtask queue.  The event loop takes   *)
(* the next macrotask only when the microtask queue is empty.  The model   *)
(* keeps the microtask queue (microtasks) and each handler's position (pc) *)
(* so that what may interleave is derived from these rules.                *)
(*                                                                         *)
(* Specifications.  Spec: requests at any time, after start-up.  SpecSeq:  *)
(* two cycles of backstage in turn.  SpecIO: cycles in turn, file writes   *)
(* fulfilled or rejected.  SpecLive: Spec for two requests with a fair     *)
(* event loop.  SpecStart: the server from its start, initDataDir running  *)
(* beside the requests.  SpecScrape, SpecClassify, SpecTier: one call of   *)
(* scrape(), classifyVFXNeeds, determineTier of scrapers/backstage.js.     *)
(***************************************************************************)
EXTENDS Integers, Sequences, FiniteSets, TLC

\* ------------------------------------------------------------------ bounds
\* Number of scrape requests of one run.
MaxReq == 2
\* Longest batch an adapter returns.
MaxBatch == 2

\* Titles and the remaining fields of a posting (id, tier, vfxNeeds,
\* description, ...: everything but the title, taken as one value).
Titles == {"A", "B"}
Data == {"d1", "d2"}
Posting == [title : Titles, data : Data]
Batches == UNION {[1..n -> Posting] : n \in 0..MaxBatch}
\* The batches tried when cycles overlap: no posting or one.
ShortBatches == {b \in Batches : Len(b) <= 1}

NoDuplicateTitles(catalog) ==
    \A i, j \in 1..Len(catalog) : catalog[i].title = catalog[j].title => i = j
\* The catalogs a run may start from (projects.json as read at start-up):
\* no two entries share a title.
InitCatalogs ==
    {c \in UNION {[1..n -> Posting] : n \in 0..Cardinality(Titles)} :
        NoDuplicateTitles(c)}

Reqs == 1..MaxReq

\* ----------------------------------------------------------- program state
\* sourcesCache initial literal, server.js lines 24-29.
null == 0
KnownSources == {"vitrina", "backstage", "mandy", "productionWeekly"}
\* Values of req.params.source tried: a source with an adapter in the
\* repository, a known source whose adapter module may or may not be
\* deployed, and a name that is no known source.
ParamSources == {"backstage", "mandy", "imdb"}

VARIABLES
    projectsCache,   \* server.js:23   the catalog, a sequence of postings
    sourcesCache,    \* server.js:24   object: source name -> status record
    clock,           \* the value new Date() returns, never decreasing
    microtasks,      \* the microtask queue: handlers whose continuation is queued
    pc,              \* position of each request's handler
    sourceName,      \* server.js:141  local of the handler
    newProjects,     \* server.js:152  local: the batch the adapter returned
    existingProjects,\* server.js:155  local: the catalog read by getProjects
    newLen,          \* newProjects.length, the only use of newProjects after line 164
    mergedLen,       \* mergedProjects.length, the only use of mergedProjects after line 167
    response,        \* per request: the HTTP status of the response sent, 0 for none yet
    sent,            \* the body of the success response sent last (server.js:175-180)
    \* history variables (not program state)
    stores,          \* number of saveProjects calls so far
    readAt,          \* value of stores when the request read the catalog
    stale,           \* a catalog was stored that was merged from a read older than a store
    appended,        \* every posting some cycle pushed onto its mergedProjects
    lastBatch,       \* the batch of the most recent merge
    repeated,        \* the most recent merge had the batch of the one before it:
                     \* "same" if it left the catalog as it was, "changed" if not
    added,           \* number of postings the request's merge pushed
    startTime,       \* the lastScrape the request wrote at its start
    countBefore,     \* projectCount of the request's source just before the request
    writeFailed,     \* number of the request's file writes that were rejected
    early,           \* the last cycle that answered 200 before initDataDir returned
    \* start-up (server.js:31-55, 231) and the two files, kept while it runs
    initPc,          \* position of initDataDir
    projectsFile,    \* data/projects.json
    sourcesFile,     \* data/sources.json
    writing,         \* per request: the file write the handler awaits
    \* one call of a function of scrapers/backstage.js
    descriptionArg,  \* backstage.js:6   argument description of classifyVFXNeeds
    budgetArg,       \* backstage.js:6,33  argument budget
    vfxNeedsOut,     \* what classifyVFXNeeds returned
    tierOut,         \* what determineTier returned
    listings,        \* backstage.js:56,88  the listings scrape() processes
    scraped          \* what scrape() returned, or that it threw

vars == <<projectsCache, sourcesCache, clock, microtasks, pc, sourceName,
          newProjects, existingProjects, newLen, mergedLen, response, sent,
          stores, readAt, stale, appended, lastBatch, repeated, added,
          startTime, countBefore, writeFailed, early, initPc, projectsFile,
          sourcesFile, writing, descriptionArg, budgetArg, vfxNeedsOut,
          tierOut, listings, scraped>>

shared == <<projectsCache, sourcesCache>>
locals == <<sourceName, newProjects, existingProjects, newLen, mergedLen>>
history == <<stores, readAt, stale, appended, lastBatch, repeated, added,
             startTime, countBefore, writeFailed>>
files == <<projectsFile, sourcesFile>>
startup == <<initPc, projectsFile, sourcesFile, writing>>
adapter == <<descriptionArg, budgetArg, vfxNeedsOut, tierOut, listings,
             scraped>>

NoBatch == <<[title |-> "none", data |-> "none"]>>
\* No response sent yet (res not used).
NoResponse == 0
NoBody == [projectsAdded |-> 0, totalProjects |-> 0]
\* The projectCount of a record that has none (undefined), or of no record.
NoCount == -1

\* ------------------------------------------------------------- operators
Range(s) == {s[i] : i \in 1..Len(s)}

IsPrefix(s, t) == Len(s) <= Len(t) /\ \A i \in 1..Len(s) : s[i] = t[i]

\* { ...a, ...b }: the fields of b override those of a.
Spread(a, b) ==
    [f \in DOMAIN a \cup DOMAIN b |-> IF f \in DOMAIN b THEN b[f] ELSE a[f]]

\* Mutant: the update replaces the whole cache by the one record.
updateSourceStatusReplaceAll(cache, name, updates) ==
    [k \in {name} |-> IF name \in DOMAIN cache
                         THEN Spread(cache[name], updates) ELSE updates]

\* server.js:80  sourcesCache[sourceName] = { ...sourcesCache[sourceName], ...updates }
\* (spreading undefined, for a name with no record, contributes no field).
updateSourceStatus(cache, name, updates) ==
    [k \in DOMAIN cache \cup {name} |->
        IF k = name
        THEN IF name \in DOMAIN cache
                THEN Spread(cache[name], updates) ELSE updates
        ELSE cache[k]]

\* server.js:160  existingProjects.find(p => p.title === newProject.title)
exists(existing, newProject) ==
    \E i \in 1..Len(existing) : existing[i].title = newProject.title

RECURSIVE MergeFrom(_, _, _, _)
MergeFrom(existing, merged, batch, i) ==
    IF i > Len(batch) THEN merged
    ELSE MergeFrom(existing,
                   IF exists(existing, batch[i])
                      THEN merged ELSE Append(merged, batch[i]),
                   batch, i + 1)

\* Mutant: no duplicate test, every incoming posting is pushed.
mergeProjectsNoDedup(existing, batch) == existing \o batch

\* Mutant: an incoming posting with a known title overwrites the entry.
mergeProjectsUpsert(existing, batch) ==
    LET upd == [i \in 1..Len(existing) |->
                  IF \E j \in 1..Len(batch) : batch[j].title = existing[i].title
                  THEN batch[CHOOSE j \in 1..Len(batch) :
                                 batch[j].title = existing[i].title]
                  ELSE existing[i]]
    IN MergeFrom(existing, upd, batch, 1)

\* server.js:158-164  mergedProjects = [...existingProjects]; forEach push
\* unless a posting of existingProjects (the catalog as read) has the title.
mergeProjects(existing, batch) == MergeFrom(existing, existing, batch, 1)

\* Mutant: getProjects reads the file, so its await waits for I/O.
getProjectsAwaitIO == "io"

\* server.js:58-60  getProjects has no await inside: the promise it returns
\* is already fulfilled and `await getProjects()` resumes from the microtask
\* queue.
getProjectsAwait == "microtask"

\* Mutant: the cumulative catalog size is recorded.
successCountTotal(nNew, nMerged) == nMerged

\* server.js:172  projectCount: newProjects.length
successCount(nNew, nMerged) == nNew

\* server.js:177  projectsAdded: newProjects.length
projectsAdded(nNew, nMerged) == nNew

\* server.js:151  require(`./scrapers/${sourceName}`): the outcomes possible
\* for a name.  backstage.js is in the repository; the adapter of another
\* known source may or may not be deployed; no other module has a scrape().
requireLoads(name) ==
    IF name = "backstage" THEN {TRUE}
    ELSE IF name \in KnownSources THEN {TRUE, FALSE}
    ELSE {FALSE}

\* The event loop runs a macrotask (an incoming request, an I/O completion)
\* only when no microtask is queued.
MacrotaskReady == microtasks = <<>>

\* The handler whose continuation is the next microtask.
Running(r) == microtasks # <<>> /\ Head(microtasks) = r

projectCountOf(cache, name) ==
    IF name \in DOMAIN cache /\ "projectCount" \in DOMAIN cache[name]
    THEN cache[name].projectCount ELSE NoCount

\* ------------------------------------------------ scrapers/backstage.js
\* A field the object does not have, or an argument not given.
undefined == <<"undefined">>

\* A description is the sequence of its words, single blanks between them.
\* A keyword is found in a text (String.prototype.includes) when its words
\* are consecutive words of the text: no word of Words has a word of a
\* keyword inside it other than as the whole word, so on these texts this
\* is the substring search of the code.
MaxWords == 2
Words == {"extensive", "heavy", "Heavy", "vfx", "VFX", "full", "cgi", "CGI",
          "green", "screen", "500+", "200+", "shots", "creature", "work",
          "supervisor", "visual", "effects", "compositing", "post",
          "production", "film"}
Texts == UNION {[1..n -> Words] : n \in 0..MaxWords}

lowerCase(w) ==
    CASE w = "Heavy" -> "heavy"
      [] w = "VFX" -> "vfx"
      [] w = "CGI" -> "cgi"
      [] OTHER -> w

\* String.prototype.toLowerCase
toLowerCase(text) == [i \in 1..Len(text) |-> lowerCase(text[i])]

\* String.prototype.includes
includes(text, kw) ==
    \E i \in 0..(Len(text) - Len(kw)) : \A j \in 1..Len(kw) : text[i + j] = kw[j]

\* backstage.js:10-12
extremeKeywords == {<<"extensive", "vfx">>, <<"heavy", "vfx">>, <<"full", "cgi">>,
                    <<"green", "screen">>, <<"500+", "shots">>, <<"creature", "work">>}
highKeywords == {<<"vfx", "supervisor">>, <<"vfx", "heavy">>, <<"visual", "effects">>,
                 <<"cgi">>, <<"compositing">>, <<"200+", "shots">>}
mediumKeywords == {<<"vfx">>, <<"visual", "effects">>, <<"post", "production">>,
                   <<"effects">>}

\* backstage.js:7  description.toLowerCase() of a description that is
\* undefined throws a TypeError.
TypeError == "TypeError"

\* Mutant: the Medium keywords are tried first.
classifyVFXNeedsMediumFirst(description, budget) ==
    IF description = undefined THEN TypeError
    ELSE LET text == toLowerCase(description) IN
         IF \E kw \in mediumKeywords : includes(text, kw) THEN "Medium"
         ELSE IF \E kw \in extremeKeywords : includes(text, kw) THEN "Extreme"
         ELSE IF \E kw \in highKeywords : includes(text, kw) THEN "High"
         ELSE "Low"

\* backstage.js:6-18
classifyVFXNeeds(description, budget) ==
    IF description = undefined THEN TypeError
    ELSE LET text == toLowerCase(description) IN
         IF \E kw \in extremeKeywords : includes(text, kw) THEN "Extreme"
         ELSE IF \E kw \in highKeywords : includes(text, kw) THEN "High"
         ELSE IF \E kw \in mediumKeywords : includes(text, kw) THEN "Medium"
         ELSE "Low"

\* A budget is the sequence of its characters.
MaxDigits == 5
DigitsTried == {"0", "1", "9"}
Amounts == UNION {[1..n -> DigitsTried] : n \in 1..MaxDigits}
\* 15000 written 15,000
Grouped(d) ==
    IF Len(d) > 3
    THEN SubSeq(d, 1, Len(d) - 3) \o <<",">> \o SubSeq(d, Len(d) - 2, Len(d))
    ELSE d
Suffixes == {<<>>, <<"K">>, <<"M">>, <<"k">>}
\* backstage.js:22  what extractBudget's first pattern matches: $[\d,]+[KMk]?
DollarBudgets ==
    {<<"$">> \o a \o x : a \in Amounts \cup {Grouped(d) : d \in Amounts},
                          x \in Suffixes}
TBD == <<"T", "B", "D">>
\* Budgets with no number in them: none given, '', 'TBD', 'N/A', '$'.
NoNumberBudgets == {undefined, <<>>, TBD, <<"N", "/", "A">>, <<"$">>}
Budgets == DollarBudgets \cup NoNumberBudgets

IsDigit(c) == c \in {"0", "1", "2", "3", "4", "5", "6", "7", "8", "9"}
digitValue(c) ==
    CASE c = "0" -> 0 [] c = "1" -> 1 [] c = "2" -> 2 [] c = "3" -> 3
      [] c = "4" -> 4 [] c = "5" -> 5 [] c = "6" -> 6 [] c = "7" -> 7
      [] c = "8" -> 8 [] c = "9" -> 9

RECURSIVE numberOf(_)
numberOf(digits) ==
    IF digits = <<>> THEN 0
    ELSE 10 * numberOf(SubSeq(digits, 1, Len(digits) - 1))
         + digitValue(digits[Len(digits)])

\* Not-a-Number: no arithmetic result, and every comparison with it is false.
NaN == -1
Times(a, b) == IF a = NaN \/ b = NaN THEN NaN ELSE a * b
GreaterEqual(a, b) == a # NaN /\ b # NaN /\ a >= b

\* parseFloat: the number written by the longest leading run of digits, NaN
\* if the string does not start with a digit.  (The budgets tried have no
\* blank, sign, decimal point or exponent.)
parseFloat(str) ==
    LET n == CHOOSE k \in 0..Len(str) :
                 /\ \A i \in 1..k : IsDigit(str[i])
                 /\ k = Len(str) \/ ~IsDigit(str[k + 1])
    IN IF n = 0 THEN NaN ELSE numberOf(SubSeq(str, 1, n))

\* budget.replace(/[$,K]/g, '')
replace(str) == SelectSeq(str, LAMBDA c : c \notin {"$", ",", "K"})

\* backstage.js:33-42  !budget holds of undefined and of the empty string.
determineTier(budget) ==
    IF budget = undefined \/ budget = <<>> \/ budget = TBD THEN "tier3"
    ELSE LET amount == Times(parseFloat(replace(budget)),
                             IF \E i \in 1..Len(budget) : budget[i] = "M"
                             THEN 1000 ELSE 1)
         IN IF GreaterEqual(amount, 10000) THEN "tier1"
            ELSE IF GreaterEqual(amount, 1000) THEN "tier2"
            ELSE IF GreaterEqual(amount, 100) THEN "tier3"
            ELSE "tier4"

\* scrape() not called yet; it threw (its promise is rejected).
NotCalled == [state |-> "none", projects |-> <<>>]
Thrown == [state |-> "thrown", projects |-> <<>>]

\* The listings tried: with or without a description, with or without a
\* budget.
Listing == [title : Titles,
            description : {undefined, <<"creature", "work">>, <<"film">>},
            budget : {undefined, <<"$", "1", "5", "M">>, <<"$", "8", "0", "K">>}]
Listings == UNION {[1..n -> Listing] : n \in 0..MaxBatch}

\* backstage.js:88-122  the loop over the listings (the fields of the
\* project that depend on the listing), inside the try of line 48; an
\* exception leaves the loop and is rethrown by the catch of lines 127-130.
scrape(mockData) ==
    IF \E i \in 1..Len(mockData) :
           classifyVFXNeeds(mockData[i].description, mockData[i].budget) = TypeError
    THEN Thrown
    ELSE [state |-> "returned",
          projects |-> [i \in 1..Len(mockData) |->
             [title |-> mockData[i].title,
              tier |-> determineTier(mockData[i].budget),
              budget |-> mockData[i].budget,
              vfxNeeds |-> classifyVFXNeeds(mockData[i].description,
                                            mockData[i].budget),
              description |-> mockData[i].description]]]

\* No file write awaited; no such file (ENOENT).
NoWrite == [file |-> "none", data |-> <<>>]
NoFile == [exists |-> FALSE, data |-> <<>>]
NoEarly == [set |-> FALSE]

\* initDataDir has not returned yet.  Only initDataDir reads the two files
\* (server.js:37, 46), so their contents are kept only until it returns.
Starting == initPc # "done"

\* server.js:66, 82  fs.writeFile(file, JSON.stringify(data, null, 2)) is
\* called by the handler of r: the text is made from data as it is at the
\* call.  The catalog and the status object hold strings, numbers, null,
\* arrays and plain objects only, which JSON.parse gives back as they were,
\* so the file is kept as the value written.
Write(r, file, data) ==
    writing' = IF Starting
               THEN [writing EXCEPT ![r] = [file |-> file, data |-> data]]
               ELSE writing

\* ------------------------------------------------------------------ Init
\* server.js:24-29  the literal sourcesCache is initialised with.
sourcesLiteral ==
    [s \in KnownSources |->
        [lastScrape |-> null, projectCount |-> 0, status |-> "idle"]]

InitRest ==
    /\ sourcesCache = sourcesLiteral
    /\ clock = 1
    /\ microtasks = <<>>
    /\ pc = [r \in Reqs |-> "new"]
    /\ sourceName = [r \in Reqs |-> ""]
    /\ newProjects = [r \in Reqs |-> <<>>]
    /\ existingProjects = [r \in Reqs |-> <<>>]
    /\ newLen = [r \in Reqs |-> 0]
    /\ mergedLen = [r \in Reqs |-> 0]
    /\ response = [r \in Reqs |-> NoResponse]
    /\ sent = NoBody
    /\ stores = 0
    /\ readAt = [r \in Reqs |-> 0]
    /\ stale = FALSE
    /\ appended = {}
    /\ lastBatch = NoBatch
    /\ repeated = "no"
    /\ added = [r \in Reqs |-> 0]
    /\ startTime = [r \in Reqs |-> null]
    /\ countBefore = [r \in Reqs |-> NoCount]
    /\ writeFailed = [r \in Reqs |-> 0]
    /\ early = NoEarly
    /\ writing = [r \in Reqs |-> NoWrite]

\* No call of a function of backstage.js is followed.
AdapterIdle ==
    /\ descriptionArg = <<>>
    /\ budgetArg = <<>>
    /\ vfxNeedsOut = "none"
    /\ tierOut = "none"
    /\ listings = <<>>
    /\ scraped = NotCalled

\* initDataDir has returned (server.js:231).
Started ==
    /\ initPc = "done"
    /\ projectsFile = NoFile
    /\ sourcesFile = NoFile

Init ==
    /\ projectsCache = <<>>
    /\ InitRest
    /\ Started
    /\ AdapterIdle

\* --------------------------------------------------------------- actions
\* The handler returns: its locals are gone.
Return(r) ==
    /\ pc' = [pc EXCEPT ![r] = "done"]
    /\ microtasks' = Tail(microtasks)
    /\ sourceName' = [sourceName EXCEPT ![r] = ""]
    /\ newLen' = [newLen EXCEPT ![r] = 0]
    /\ mergedLen' = [mergedLen EXCEPT ![r] = 0]
    /\ readAt' = [readAt EXCEPT ![r] = 0]
    /\ startTime' = [startTime EXCEPT ![r] = null]
    /\ countBefore' = [countBefore EXCEPT ![r] = NoCount]
    /\ added' = [added EXCEPT ![r] = 0]

\* server.js:140-148  a request arrives; the handler runs to the await of
\* fs.writeFile inside updateSourceStatus (line 82).  now is what
\* new Date() returns (line 147); requests are taken to start at distinct,
\* increasing times, and are numbered in the order they arrive.
Request(r, s, now) ==
    /\ MacrotaskReady
    /\ pc[r] = "new"
    /\ now = clock + 1
    /\ IF r = 1 THEN TRUE ELSE pc[r - 1] # "new"
    /\ sourceName' = [sourceName EXCEPT ![r] = s]
    /\ sourcesCache' = updateSourceStatus(sourcesCache, s,
                          [status |-> "scraping", lastScrape |-> now])
    /\ Write(r, "sources", updateSourceStatus(sourcesCache, s,
                          [status |-> "scraping", lastScrape |-> now]))
    /\ clock' = now
    /\ pc' = [pc EXCEPT ![r] = "L145"]
    /\ startTime' = [startTime EXCEPT ![r] = now]
    /\ countBefore' = [countBefore EXCEPT ![r] = projectCountOf(sourcesCache, s)]
    /\ UNCHANGED <<projectsCache, microtasks, newProjects, existingProjects,
                   newLen, mergedLen, response, sent, stores, readAt, stale,
                   appended, lastBatch, repeated, added, writeFailed, early,
                   initPc, files, adapter>>

\* Mutant: saveProjects and updateSourceStatus without their try/catch: a
\* rejected write is thrown into the handler and reaches its catch block.
resumeAtUncaught(at, ok) ==
    IF ok \/ at = "L155io"
    THEN CASE at = "L145" -> "L151"
           [] at = "L155io" -> "L158"
           [] at = "L167" -> "L170"
           [] at = "L173" -> "L175"
           [] at = "L184" -> "L185"
    ELSE IF at = "L184" THEN "L185" ELSE "L182"

\* server.js:65-70, 81-86  where the handler resumes once the I/O it awaits
\* at position `at` has settled, fulfilled (ok) or rejected.  The awaited
\* writeFile is inside try/catch (lines 65-69 and 81-85): a rejection is
\* logged and the function returns as it does after a fulfilled write.
resumeAt(at, ok) ==
    CASE at = "L145" -> "L151"
      [] at = "L155io" -> "L158"
      [] at = "L167" -> "L170"
      [] at = "L173" -> "L175"
      [] at = "L184" -> "L185"

\* The I/O a handler awaits settles and the handler is resumed: its
\* continuation is queued.
Resume(r, ok) ==
    /\ MacrotaskReady
    /\ pc[r] \in {"L145", "L155io", "L167", "L173", "L184"}
    /\ pc' = [pc EXCEPT ![r] = resumeAt(pc[r], ok)]
    /\ microtasks' = Append(microtasks, r)
    /\ projectsFile' = IF Starting /\ ok /\ writing[r].file = "projects"
                       THEN [exists |-> TRUE, data |-> writing[r].data]
                       ELSE projectsFile
    /\ sourcesFile' = IF Starting /\ ok /\ writing[r].file = "sources"
                      THEN [exists |-> TRUE, data |-> writing[r].data]
                      ELSE sourcesFile
    /\ writing' = [writing EXCEPT ![r] = NoWrite]
    /\ UNCHANGED <<shared, clock, locals, response, sent, early, initPc,
                   adapter>>

\* server.js:82,66  the awaited I/O is fulfilled.
IOSettles(r) ==
    /\ Resume(r, TRUE)
    /\ UNCHANGED history

\* server.js:66-69, 82-85  the awaited fs.writeFile is rejected (disk full,
\* directory missing, read-only file system).
WriteFails(r) ==
    /\ pc[r] # "L155io"
    /\ Resume(r, FALSE)
    /\ writeFailed' = [writeFailed EXCEPT ![r] = @ + 1]
    /\ UNCHANGED <<stores, readAt, stale, appended, lastBatch, repeated, added,
                   startTime, countBefore>>

\* server.js:151 require loads the adapter and line 152 calls scrape();
\* the handler awaits the adapter's promise.
LoadAdapter(r) ==
    /\ Running(r)
    /\ pc[r] = "L151"
    /\ TRUE \in requireLoads(sourceName[r])
    /\ pc' = [pc EXCEPT ![r] = "L152"]
    /\ microtasks' = Tail(microtasks)
    /\ UNCHANGED <<shared, clock, locals, response, sent, history, early,
                   startup, adapter>>

\* Mutant: a catch block that only answers (no line 184).
CatchUpdateSkipped(r) ==
    /\ pc' = [pc EXCEPT ![r] = "L185"]
    /\ UNCHANGED <<shared, clock, microtasks, locals, response, sent, history,
                   early, startup, adapter>>

\* server.js:182-184  the catch block: updateSourceStatus(sourceName,
\* {status: 'error'}) up to its await of fs.writeFile.
CatchUpdate(r) ==
    /\ sourcesCache' = updateSourceStatus(sourcesCache, sourceName[r],
                          [status |-> "error"])
    /\ Write(r, "sources", updateSourceStatus(sourcesCache, sourceName[r],
                          [status |-> "error"]))
    /\ pc' = [pc EXCEPT ![r] = "L184"]
    /\ microtasks' = Tail(microtasks)
    /\ UNCHANGED <<projectsCache, clock, locals, response, sent, history,
                   early, initPc, files, adapter>>

\* server.js:151  require throws (no such module, or no scrape function).
RequireThrows(r) ==
    /\ Running(r)
    /\ pc[r] = "L151"
    /\ FALSE \in requireLoads(sourceName[r])
    /\ CatchUpdate(r)

\* server.js:152  the adapter's promise is fulfilled with a batch.  The
\* promise of each scrape() call settles on its own: backstage.js:45-131 has
\* no await, so the promise is settled by the call itself, and an adapter
\* that retrieves over the network is resumed by its own I/O completion.
\* Taking the settlement as a macrotask allows every other handler to run
\* between the call (line 152) and the resumption.
AdapterReturns(r, batch) ==
    /\ MacrotaskReady
    /\ pc[r] = "L152"
    /\ newProjects' = [newProjects EXCEPT ![r] = batch]
    /\ pc' = [pc EXCEPT ![r] = "L155"]
    /\ microtasks' = Append(microtasks, r)
    /\ UNCHANGED <<shared, clock, sourceName, existingProjects, newLen,
                   mergedLen, response, sent, history, early, startup, adapter>>

\* server.js:152  the adapter's promise is rejected (backstage.js:127-130).
AdapterThrows(r) ==
    /\ MacrotaskReady
    /\ pc[r] = "L152"
    /\ pc' = [pc EXCEPT ![r] = "L182"]
    /\ microtasks' = Append(microtasks, r)
    /\ UNCHANGED <<shared, clock, locals, response, sent, history, early,
                   startup, adapter>>

\* server.js:182-184  the catch block after a rejected adapter promise.
Catch(r) ==
    /\ Running(r)
    /\ pc[r] = "L182"
    /\ CatchUpdate(r)

\* server.js:155  getProjects() returns projectsCache; the handler awaits.
ReadCatalog(r) ==
    /\ Running(r)
    /\ pc[r] = "L155"
    /\ existingProjects' = [existingProjects EXCEPT ![r] = projectsCache]
    /\ readAt' = [readAt EXCEPT ![r] = stores]
    /\ IF getProjectsAwait = "microtask"
       THEN /\ pc' = [pc EXCEPT ![r] = "L158"]
            /\ microtasks' = Append(Tail(microtasks), r)
       ELSE \* a getProjects that awaits I/O (not this code) parks the handler
            /\ pc' = [pc EXCEPT ![r] = "L155io"]
            /\ microtasks' = Tail(microtasks)
    /\ UNCHANGED <<shared, clock, sourceName, newProjects, newLen, mergedLen,
                   response, sent, stores, stale, appended, lastBatch,
                   repeated, added, startTime, countBefore, writeFailed,
                   early, startup, adapter>>

\* server.js:158-167  the merge loop and saveProjects up to its await of
\* fs.writeFile (line 66): projectsCache = mergedProjects.  After line 167
\* the handler reads newProjects and mergedProjects only through .length
\* (lines 172, 177, 178), which newLen and mergedLen keep.
MergeAndSave(r) ==
    LET merged == mergeProjects(existingProjects[r], newProjects[r]) IN
    /\ Running(r)
    /\ pc[r] = "L158"
    /\ projectsCache' = merged
    /\ Write(r, "projects", merged)
    /\ newLen' = [newLen EXCEPT ![r] = Len(newProjects[r])]
    /\ mergedLen' = [mergedLen EXCEPT ![r] = Len(merged)]
    /\ newProjects' = [newProjects EXCEPT ![r] = <<>>]
    /\ existingProjects' = [existingProjects EXCEPT ![r] = <<>>]
    /\ pc' = [pc EXCEPT ![r] = "L167"]
    /\ microtasks' = Tail(microtasks)
    /\ stores' = stores + 1
    /\ stale' = (stale \/ readAt[r] # stores)
    /\ appended' = appended \cup
                     {merged[i] : i \in Len(existingProjects[r]) + 1 .. Len(merged)}
    /\ lastBatch' = newProjects[r]
    /\ repeated' = IF newProjects[r] # lastBatch THEN "no"
                   ELSE IF merged = projectsCache THEN "same" ELSE "changed"
    /\ added' = [added EXCEPT ![r] = Len(merged) - Len(existingProjects[r])]
    /\ UNCHANGED <<sourcesCache, clock, sourceName, response, sent, readAt,
                   startTime, countBefore, writeFailed, early, initPc, files,
                   adapter>>

\* server.js:170-173  updateSourceStatus(sourceName, {status: 'active',
\* projectCount: newProjects.length}) up to its await of fs.writeFile.
MarkActive(r) ==
    /\ Running(r)
    /\ pc[r] = "L170"
    /\ sourcesCache' = updateSourceStatus(sourcesCache, sourceName[r],
                          [status |-> "active",
                           projectCount |-> successCount(newLen[r], mergedLen[r])])
    /\ Write(r, "sources", updateSourceStatus(sourcesCache, sourceName[r],
                          [status |-> "active",
                           projectCount |-> successCount(newLen[r], mergedLen[r])]))
    /\ pc' = [pc EXCEPT ![r] = "L173"]
    /\ microtasks' = Tail(microtasks)
    /\ UNCHANGED <<projectsCache, clock, locals, response, sent, history,
                   early, initPc, files, adapter>>

\* server.js:175-180  res.json({success, projectsAdded, totalProjects, source}).
RespondOk(r) ==
    /\ Running(r)
    /\ pc[r] = "L175"
    /\ response' = [response EXCEPT ![r] = 200]
    /\ sent' = [projectsAdded |-> projectsAdded(newLen[r], mergedLen[r]),
                totalProjects |-> mergedLen[r]]
    /\ early' = IF Starting
                THEN [set |-> TRUE, source |-> sourceName[r],
                      record |-> sourcesCache[sourceName[r]],
                      stores |-> stores, clock |-> clock]
                ELSE early
    /\ Return(r)
    /\ UNCHANGED <<shared, clock, newProjects, existingProjects, stores,
                   stale, appended, lastBatch, repeated, writeFailed,
                   startup, adapter>>

\* server.js:185  res.status(500).json({error: error.message}).
RespondError(r) ==
    /\ Running(r)
    /\ pc[r] = "L185"
    /\ response' = [response EXCEPT ![r] = 500]
    /\ sent' = sent
    /\ Return(r)
    /\ UNCHANGED <<shared, clock, newProjects, existingProjects, stores,
                   stale, appended, lastBatch, repeated, writeFailed,
                   early, startup, adapter>>

\* A request is in flight: its handler has started and not yet returned.
InFlight(r) == pc[r] \notin {"new", "done"}

\* The scrape cycles of a caller that sends the next request only after
\* the response to the previous one.
RequestInTurn(r, s, now) ==
    /\ \A q \in Reqs : ~InFlight(q)
    /\ Request(r, s, now)

\* The steps of a handler after its start, but for the adapter's answer.
Step(r) ==
    \/ IOSettles(r)
    \/ LoadAdapter(r)
    \/ RequireThrows(r)
    \/ AdapterThrows(r)
    \/ Catch(r)
    \/ ReadCatalog(r)
    \/ MergeAndSave(r)
    \/ MarkActive(r)
    \/ RespondOk(r)
    \/ RespondError(r)

\* The steps of a cycle whose adapter loads and returns.
SuccessStep(r) ==
    \/ IOSettles(r)
    \/ LoadAdapter(r)
    \/ ReadCatalog(r)
    \/ MergeAndSave(r)
    \/ MarkActive(r)
    \/ RespondOk(r)

Next ==
    \/ \E r \in Reqs, s \in ParamSources : Request(r, s, clock + 1)
    \/ \E r \in Reqs, batch \in ShortBatches : AdapterReturns(r, batch)
    \/ \E r \in Reqs : Step(r)

\* Requests arrive at any time, also while other cycles are in flight.
Spec == Init /\ [][Next]_vars

\* A handler in flight goes on: the file write it awaits settles, the
\* promise of scrape() settles (backstage.js has no await: it is settled
\* when scrape() returns), and the event loop runs the queued continuation.
Progress ==
    \/ \E r \in Reqs, batch \in ShortBatches : AdapterReturns(r, batch)
    \/ \E r \in Reqs : Step(r)

NextLive ==
    \/ \E r \in {1, 2}, s \in ParamSources : Request(r, s, clock + 1)
    \/ Progress

\* Two requests, at any time, with an event loop that keeps running and
\* file writes and adapter promises that settle.
SpecLive == Init /\ [][NextLive]_vars /\ WF_vars(Progress)

InitSeq ==
    /\ projectsCache \in InitCatalogs
    /\ InitRest
    /\ Started
    /\ AdapterIdle

NextSeq ==
    \/ \E r \in {1, 2} : RequestInTurn(r, "backstage", clock + 1)
    \/ \E r \in Reqs, batch \in Batches : AdapterReturns(r, batch)
    \/ \E r \in Reqs : SuccessStep(r)

\* A first and a second cycle of the repository's adapter (backstage), the
\* second after the first has responded, from any catalog without duplicate
\* titles, the adapter returning any batch of up to MaxBatch postings.
SpecSeq == InitSeq /\ [][NextSeq]_vars

NextIO ==
    \/ \E r \in Reqs, s \in ParamSources : RequestInTurn(r, s, clock + 1)
    \/ \E r \in Reqs, batch \in ShortBatches : AdapterReturns(r, batch)
    \/ \E r \in Reqs : Step(r)
    \/ \E r \in Reqs : WriteFails(r)

\* Cycles one at a time, each file write fulfilled or rejected.  (In Spec
\* and SpecSeq every write is fulfilled: by resumeAt a rejected write
\* leaves the same program state as a fulfilled one.)
SpecIO == Init /\ [][NextIO]_vars

\* ---------------------------------------------------------------- start-up
\* server.js:230-231  the listen callback calls initDataDir once the server
\* is listening, so requests are served while initDataDir runs.  Each await
\* of initDataDir is file I/O; the completion and the code up to the next
\* await are one macrotask.  The data directory is taken to exist and the
\* file system to work, so mkdir (recursive) and initDataDir's own writes
\* are fulfilled and the outer catch (lines 52-54) is not entered; a file
\* that is there but cannot be parsed leads where a missing file leads
\* (the catch of lines 39 and 48).

\* What a previous run of the server may have left in the two files.
PersistedCatalogs == {<<>>, <<[title |-> "A", data |-> "d1"]>>}
PersistedSources ==
    {sourcesLiteral,
     [sourcesLiteral EXCEPT !["backstage"] =
         [lastScrape |-> 1, projectCount |-> 1, status |-> "active"]],
     [sourcesLiteral EXCEPT !["backstage"] =
         [lastScrape |-> 1, projectCount |-> 0, status |-> "scraping"]]}

\* initDataDir moves on; once it has returned the files are no longer read.
InitGoes(to) ==
    /\ initPc' = to
    /\ writing' = IF to = "done" THEN [r \in Reqs |-> NoWrite] ELSE writing
    /\ UNCHANGED <<clock, microtasks, pc, locals, response, sent, history,
                   early, adapter>>

\* server.js:33  mkdir is fulfilled; line 36 access(PROJECTS_FILE) is called.
InitMkdir ==
    /\ MacrotaskReady
    /\ initPc = "L33"
    /\ InitGoes("L36")
    /\ UNCHANGED <<shared, files>>

\* server.js:36  access settles: the file is there (line 37 readFile is
\* called) or it is not (line 40 writeFile is called).
InitAccessProjects ==
    /\ MacrotaskReady
    /\ initPc = "L36"
    /\ InitGoes(IF projectsFile.exists THEN "L37" ELSE "L40")
    /\ UNCHANGED <<shared, files>>

\* server.js:37-38  readFile is fulfilled: projectsCache = JSON.parse(data);
\* line 45 access(SOURCES_FILE) is called.
InitReadProjects ==
    /\ MacrotaskReady
    /\ initPc = "L37"
    /\ projectsCache' = projectsFile.data
    /\ InitGoes("L45")
    /\ UNCHANGED <<sourcesCache, files>>

\* server.js:40-41  writeFile of [] is fulfilled: projectsCache = [].
InitWriteProjects ==
    /\ MacrotaskReady
    /\ initPc = "L40"
    /\ projectsFile' = [exists |-> TRUE, data |-> <<>>]
    /\ projectsCache' = <<>>
    /\ InitGoes("L45")
    /\ UNCHANGED <<sourcesCache, sourcesFile>>

\* server.js:45  access settles: line 46 readFile or line 49 writeFile.
InitAccessSources ==
    /\ MacrotaskReady
    /\ initPc = "L45"
    /\ InitGoes(IF sourcesFile.exists THEN "L46" ELSE "L49")
    /\ UNCHANGED <<shared, files>>

\* server.js:46-47  readFile is fulfilled: sourcesCache = JSON.parse(data);
\* initDataDir returns.
InitReadSources ==
    /\ MacrotaskReady
    /\ initPc = "L46"
    /\ sourcesCache' = sourcesFile.data
    /\ projectsFile' = NoFile
    /\ sourcesFile' = NoFile
    /\ InitGoes("done")
    /\ UNCHANGED projectsCache

\* server.js:49  writeFile of sourcesCache is fulfilled; initDataDir returns.
InitWriteSources ==
    /\ MacrotaskReady
    /\ initPc = "L49"
    /\ projectsFile' = NoFile
    /\ sourcesFile' = NoFile
    /\ InitGoes("done")
    /\ UNCHANGED shared

initDataDir ==
    \/ InitMkdir
    \/ InitAccessProjects
    \/ InitReadProjects
    \/ InitWriteProjects
    \/ InitAccessSources
    \/ InitReadSources
    \/ InitWriteSources

\* server.js:23-29, 230-231  the process has started: the caches hold their
\* literals, initDataDir has called mkdir, the files are as left before.
InitStart ==
    /\ projectsCache = <<>>
    /\ InitRest
    /\ AdapterIdle
    /\ initPc = "L33"
    /\ projectsFile \in {NoFile} \cup
                         {[exists |-> TRUE, data |-> c] : c \in PersistedCatalogs}
    /\ sourcesFile \in {NoFile} \cup
                        {[exists |-> TRUE, data |-> c] : c \in PersistedSources}

NextStart ==
    \/ initDataDir
    \/ \E r \in Reqs, s \in ParamSources : Request(r, s, clock + 1)
    \/ \E r \in Reqs, batch \in ShortBatches : AdapterReturns(r, batch)
    \/ \E r \in Reqs : Step(r)

\* The server from its start: requests arrive while initDataDir runs and
\* after it.
SpecStart == InitStart /\ [][NextStart]_vars

\* One call of scrape(), of classifyVFXNeeds, of determineTier.
Scrape ==
    /\ scraped = NotCalled
    /\ scraped' = scrape(listings)
    /\ UNCHANGED <<shared, clock, microtasks, pc, locals, response, sent,
                   history, early, startup, descriptionArg, budgetArg,
                   vfxNeedsOut, tierOut, listings>>

Classify ==
    /\ vfxNeedsOut = "none"
    /\ vfxNeedsOut' = classifyVFXNeeds(descriptionArg, budgetArg)
    /\ UNCHANGED <<shared, clock, microtasks, pc, locals, response, sent,
                   history, early, startup, descriptionArg, budgetArg,
                   tierOut, listings, scraped>>

Tier ==
    /\ tierOut = "none"
    /\ tierOut' = determineTier(budgetArg)
    /\ UNCHANGED <<shared, clock, microtasks, pc, locals, response, sent,
                   history, early, startup, descriptionArg, budgetArg,
                   vfxNeedsOut, listings, scraped>>

\* The server as in Init, no request made.
ServerIdle ==
    /\ projectsCache = <<>>
    /\ InitRest
    /\ Started

InitScrape ==
    /\ ServerIdle
    /\ listings \in Listings
    /\ scraped = NotCalled
    /\ descriptionArg = <<>>
    /\ budgetArg = <<>>
    /\ vfxNeedsOut = "none"
    /\ tierOut = "none"

\* scrape() over any listings of up to MaxBatch entries.
SpecScrape == InitScrape /\ [][Scrape]_vars

InitClassify ==
    /\ ServerIdle
    /\ descriptionArg \in Texts
    /\ budgetArg \in {undefined, <<"$", "1", "5", "M">>}
    /\ vfxNeedsOut = "none"
    /\ tierOut = "none"
    /\ listings = <<>>
    /\ scraped = NotCalled

\* classifyVFXNeeds of any description of up to MaxWords words.
SpecClassify == InitClassify /\ [][Classify]_vars

InitTier ==
    /\ ServerIdle
    /\ budgetArg \in Budgets
    /\ descriptionArg = <<>>
    /\ vfxNeedsOut = "none"
    /\ tierOut = "none"
    /\ listings = <<>>
    /\ scraped = NotCalled

\* determineTier of any budget of Budgets.
SpecTier == InitTier /\ [][Tier]_vars

\* ------------------------------------------------------------------ claims

\* C1: from a catalog in which no two entries share a title, after any
\* sequence of scrape cycles no two entries of the catalog have the same
\* title, also when a batch holds two postings with one title.
C1_TitleUniqueness == NoDuplicateTitles(projectsCache)

\* C2: whatever the interleaving of the cycles in flight, no cycle stores a
\* catalog merged from a read that is older than another cycle's store, and
\* every posting a cycle appended is in the catalog.
C2_CriticalSection ==
    /\ ~stale
    /\ \A p \in appended : p \in Range(projectsCache)

\* Two cycles of different sources are in flight at once, each has stored
\* a catalog to which it appended a posting, and neither has responded.
C2_Witness ==
    \E r1, r2 \in Reqs :
        /\ r1 # r2
        /\ pc[r1] \in {"L167", "L170", "L173"}
        /\ pc[r2] = "L167"
        /\ sourceName[r1] # sourceName[r2]
        /\ added[r1] > 0
        /\ added[r2] > 0

\* C3: a second cycle with the batch of the cycle before it, run against
\* the catalog that cycle stored, appends nothing: it stores the same catalog.
C3_MergeIdempotent == repeated # "changed"

\* A second cycle has run with the non-empty batch of the first, which had
\* appended postings.
C3_Witness ==
    /\ repeated = "same"
    /\ stores = 2
    /\ lastBatch # <<>>
    /\ appended # {}

\* C4: the projectsAdded of a success response is the number of postings
\* the cycle appended to the catalog, not the size of the batch.
C4_AddedCount ==
    [][\A r \in Reqs :
          (pc[r] = "L175" /\ pc'[r] = "done")
              => sent'.projectsAdded = added[r]]_vars

\* C5: a merge keeps every entry of the catalog as it is and in its place:
\* the catalog before a step is a prefix of the catalog after it, also when
\* the batch has a posting with a known title and other field values.
C5_ExistingPreserved == [][IsPrefix(projectsCache, projectsCache')]_vars

\* One merge has run on a catalog whose first entry has title A; its batch
\* had a posting of title A with other data, which is not in the catalog.
C5_Witness ==
    /\ stores = 1
    /\ projectsCache # <<>>
    /\ projectsCache[1].title = "A"
    /\ \E i \in 1..Len(lastBatch) :
          /\ lastBatch[i].title = "A"
          /\ lastBatch[i].data # projectsCache[1].data
          /\ lastBatch[i] \notin Range(projectsCache)

ScrapeStates == {"idle", "scraping", "active", "error"}

\* The changes of state of section 4.4.
AllowedTransitions ==
    {<<"idle", "scraping">>, <<"scraping", "active">>, <<"scraping", "error">>,
     <<"active", "scraping">>, <<"error", "scraping">>}

\* C6: every change of the state of a known source is one of
\* idle->scraping, scraping->active, scraping->error, active->scraping,
\* error->scraping, also when requests for one source overlap.
C6_StatusTransitions ==
    [][\A s \in KnownSources :
          sourcesCache'[s].status # sourcesCache[s].status
              => <<sourcesCache[s].status, sourcesCache'[s].status>>
                     \in AllowedTransitions]_vars

\* The step in which the handler of r leaves the try block for the catch
\* block and writes the error status (line 184).
Fails(r) == pc[r] \in {"L151", "L182"} /\ pc'[r] = "L184"

\* C7: when the adapter of a cycle for S throws or cannot be loaded, the
\* cycle ends with S in state error, S's projectCount as it was before the
\* cycle and S's lastScrape as set at the start of that cycle.
C7_AdapterFailure ==
    [][\A r \in Reqs :
          Fails(r) =>
              /\ sourcesCache'[sourceName[r]].status = "error"
              /\ projectCountOf(sourcesCache', sourceName[r]) = countBefore[r]
              /\ sourcesCache'[sourceName[r]].lastScrape = startTime[r]]_vars

\* A step of the handler of r on the way of a cycle that fails: its start,
\* its steps up to the adapter's answer, the catch block and the response.
StepTowardsFailure(r) ==
    \/ pc[r] # pc'[r] /\ pc'[r] \in {"L145", "L151", "L152", "L182", "L184", "L185"}
    \/ pc[r] = "L185" /\ pc'[r] = "done"

\* C8: a failed cycle for S changes nothing but S's record: none of its
\* steps changes the catalog or the record of another source.
C8_FailureFrame ==
    [][\A r \in Reqs :
          StepTowardsFailure(r) =>
              /\ projectsCache' = projectsCache
              /\ \A t \in DOMAIN sourcesCache :
                    t # (IF pc[r] = "new" THEN sourceName'[r] ELSE sourceName[r])
                        => /\ t \in DOMAIN sourcesCache'
                           /\ sourcesCache'[t] = sourcesCache[t]]_vars

\* A cycle has failed and sent its 500 while the catalog holds a posting
\* and another source is active.
C8_Witness ==
    \E r \in Reqs :
        /\ response[r] = 500
        /\ projectsCache # <<>>
        /\ \E t \in KnownSources : sourcesCache[t].status = "active"

\* C9: when the adapter of a cycle for S returns n postings, n >= 0, the
\* cycle's status update leaves S in state active with projectCount n,
\* however many postings were appended and whatever the catalog's size.
C9_AdapterSuccess ==
    [][\A r \in Reqs :
          (pc[r] = "L170" /\ pc'[r] = "L173") =>
              /\ sourcesCache'[sourceName[r]].status = "active"
              /\ sourcesCache'[sourceName[r]].projectCount = newLen[r]]_vars

\* A cycle whose adapter returned one posting, of which none was appended,
\* has made its status update: S is active with projectCount 1.
C9_Witness ==
    \E r \in Reqs :
        /\ pc[r] = "L173"
        /\ newLen[r] = 1
        /\ added[r] = 0
        /\ sourcesCache[sourceName[r]].status = "active"
        /\ sourcesCache[sourceName[r]].projectCount = 1

\* C10: the sources with a status record are the known sources, and every
\* record has a state of ScrapeStates and an integer projectCount >= 0,
\* whatever source a scrape request names.
C10_StatusRecords ==
    /\ DOMAIN sourcesCache = KnownSources
    /\ \A s \in DOMAIN sourcesCache :
          /\ sourcesCache[s].status \in ScrapeStates
          /\ "projectCount" \in DOMAIN sourcesCache[s]
          /\ sourcesCache[s].projectCount \in Nat

\* C11: a rejected file write (saveProjects, updateSourceStatus) does not
\* fail the request: the handler resumes where it resumes after a fulfilled
\* write with the catalog and the source status as they were, the catch
\* block is entered only from require or from the adapter's rejection, and
\* a cycle that reached the response of lines 175-180 sends 200.
C11_BestEffortPersistence ==
    [][\A r \in Reqs :
         /\ WriteFails(r) =>
               /\ UNCHANGED shared
               /\ pc'[r] = resumeAt(pc[r], TRUE)
         /\ (pc'[r] \in {"L182", "L184"} /\ pc[r] \notin {"L182", "L184"}) =>
               pc[r] \in {"L151", "L152"}
         /\ (pc[r] = "L175" /\ pc'[r] = "done") => response'[r] = 200]_vars

\* Every write of a cycle was rejected (lines 145-148, 167, 170-173) and
\* the cycle answered 200 with its postings in the catalog.
C11_Witness ==
    \E r \in Reqs :
        /\ writeFailed[r] = 3
        /\ response[r] = 200
        /\ sent.projectsAdded = 1
        /\ projectsCache # <<>>

\* C12: when one listing of a batch has no description, scrape() does not
\* abort: it returns a project for every listing, the one without a
\* description classified Low / tier4 and every other one classified from
\* its description and its budget.
C12_BadRecordTolerated ==
    (/\ scraped # NotCalled
     /\ Cardinality({i \in 1..Len(listings) :
                        listings[i].description = undefined}) = 1)
    => /\ scraped.state = "returned"
       /\ Len(scraped.projects) = Len(listings)
       /\ \A i \in 1..Len(scraped.projects) :
            IF listings[i].description = undefined
            THEN /\ scraped.projects[i].vfxNeeds = "Low"
                 /\ scraped.projects[i].tier = "tier4"
            ELSE /\ scraped.projects[i].vfxNeeds =
                        classifyVFXNeeds(listings[i].description, listings[i].budget)
                 /\ scraped.projects[i].tier = determineTier(listings[i].budget)

\* C13: once initDataDir has returned, and before any scrape request, every
\* known source has state idle, whatever sources.json held at the start.
C13_IdleAtStart ==
    (initPc = "done" /\ \A r \in Reqs : pc[r] = "new")
    => \A s \in KnownSources : sourcesCache[s].status = "idle"

\* The keyword lists of the specification (4.2), most demanding first.
ExtremeTerms == {<<"extensive", "vfx">>, <<"heavy", "vfx">>, <<"full", "cgi">>,
                 <<"green", "screen">>, <<"500+", "shots">>, <<"creature", "work">>}
HighTerms == {<<"vfx", "supervisor">>, <<"vfx", "heavy">>, <<"visual", "effects">>,
              <<"cgi">>, <<"compositing">>, <<"200+", "shots">>}
MediumTerms == {<<"vfx">>, <<"visual", "effects">>, <<"post", "production">>,
                <<"effects">>}
Mentions(terms) ==
    \E kw \in terms : includes(toLowerCase(descriptionArg), kw)

\* C14: classifyVFXNeeds returns Extreme if the lower-cased description
\* contains an Extreme keyword; otherwise High if it contains a High
\* keyword; otherwise Medium if it contains a Medium keyword; otherwise
\* Low.  The budget argument makes no difference.
C14_KeywordPriority ==
    vfxNeedsOut # "none" =>
        /\ vfxNeedsOut =
              IF Mentions(ExtremeTerms) THEN "Extreme"
              ELSE IF Mentions(HighTerms) THEN "High"
              ELSE IF Mentions(MediumTerms) THEN "Medium"
              ELSE "Low"
        /\ \A b \in NoNumberBudgets \cup {<<"$", "8", "0", "K">>} :
              classifyVFXNeeds(descriptionArg, b) = vfxNeedsOut

\* 'Heavy VFX' has an Extreme keyword and a Medium keyword, and is
\* classified Extreme.
C14_Witness ==
    /\ descriptionArg = <<"Heavy", "VFX">>
    /\ Mentions(ExtremeTerms)
    /\ Mentions(MediumTerms)
    /\ vfxNeedsOut = "Extreme"

\* The money a budget $<amount>, $<amount>K or $<amount>M stands for, as
\* <<thousands of dollars, dollars below a thousand>>, and the tier of an
\* amount of money (specification 4.2).
Money(b) ==
    LET n == numberOf(SelectSeq(b, IsDigit)) IN
    IF b[Len(b)] \in {"K", "k"} THEN <<n, 0>>
    ELSE IF b[Len(b)] = "M" THEN <<n * 1000, 0>>
    ELSE <<n \div 1000, n % 1000>>
NoMoreThan(m, n) == m[1] < n[1] \/ (m[1] = n[1] /\ m[2] <= n[2])
TierOfMoney(m) ==
    IF m[1] >= 10000 THEN "tier1"
    ELSE IF m[1] >= 1000 THEN "tier2"
    ELSE IF m[1] >= 100 THEN "tier3"
    ELSE "tier4"
TierRank(t) ==
    CASE t = "tier1" -> 4 [] t = "tier2" -> 3 [] t = "tier3" -> 2 [] t = "tier4" -> 1
ClaimedForm(b) == b \in DollarBudgets /\ b[Len(b)] # "k"

\* C15: for a budget $<amount>, $<amount>K or $<amount>M, determineTier
\* gives tier1 from $10M, tier2 from $1M, tier3 from $100K and tier4 below,
\* and never a lower tier to a budget that stands for more money.
C15_TierMonotonic ==
    (tierOut # "none" /\ ClaimedForm(budgetArg)) =>
        /\ tierOut = TierOfMoney(Money(budgetArg))
        /\ \A b \in DollarBudgets :
              (ClaimedForm(b) /\ NoMoreThan(Money(b), Money(budgetArg)))
              => TierRank(determineTier(b)) <= TierRank(tierOut)

HasNumber(b) == \E i \in 1..Len(b) : IsDigit(b[i])

\* C16: determineTier returns tier3 for a budget that is not given, is
\* 'TBD' or has no number in it, and returns tier4 only for a budget with
\* a number that stands for less than $100K.
C16_UnknownBudget ==
    tierOut # "none" =>
        /\ ~HasNumber(budgetArg) => tierOut = "tier3"
        /\ tierOut = "tier4" =>
              (HasNumber(budgetArg) /\ TierOfMoney(Money(budgetArg)) = "tier4")

\* The step in which the handler of r makes the last status update of its
\* cycle: active (line 170) or error (line 184).
Concludes(r) == pc[r] \in {"L151", "L170", "L182"} /\ pc'[r] \in {"L173", "L184"}

\* C17: the start of a cycle for S sets S to scraping and S's lastScrape to
\* the current time, the adapter is loaded and called only after that, and
\* every attempt, also one whose adapter fails or does not exist, leaves
\* S's lastScrape at the start time of that attempt.
C17_StartPrecedesRetrieval ==
    [][\A r \in Reqs :
          /\ (pc[r] = "new" /\ pc'[r] # "new") =>
                /\ pc'[r] = "L145"
                /\ sourcesCache'[sourceName'[r]].status = "scraping"
                /\ sourcesCache'[sourceName'[r]].lastScrape = clock'
          /\ (pc[r] = "L151" /\ pc'[r] # "L151") => startTime[r] # null
          /\ Concludes(r) =>
                sourcesCache'[sourceName[r]].lastScrape = startTime[r]]_vars

\* The cycle of r has started and has not yet made its last status update.
Working(r) ==
    pc[r] \in {"L145", "L151", "L152", "L155", "L155io", "L158", "L167", "L170",
               "L182"}

\* C18: whenever a cycle for S has started and not finished, S's state is
\* scraping, also when requests for one source overlap.
C18_StatusReflectsWork ==
    \A r \in Reqs : Working(r) => sourcesCache[sourceName[r]].status = "scraping"

\* C19: every cycle that has started answers, once, and when no cycle for
\* a source that has been attempted is in flight, the source is active or
\* error, not scraping.
C19_CycleTerminates ==
    /\ \A r \in Reqs :
          InFlight(r) ~> (pc[r] = "done" /\ response[r] \in {200, 500})
    /\ [][\A r \in Reqs :
             response[r] # NoResponse => response'[r] = response[r]]_vars
    /\ [](\A s \in DOMAIN sourcesCache :
            (/\ sourcesCache[s].lastScrape # null
             /\ \A r \in Reqs : InFlight(r) => sourceName[r] # s)
            => sourcesCache[s].status \in {"active", "error"})

\* Two overlapping cycles for one source have both answered, one with 200
\* and one with 500, and no cycle is in flight.
C19_Witness ==
    /\ \A r \in Reqs : pc[r] = "done"
    /\ \E r, q \in Reqs : response[r] = 200 /\ response[q] = 500
    /\ sourcesCache["mandy"].lastScrape = clock
    /\ sourcesCache["mandy"].projectCount = 1
    /\ sourcesCache["backstage"].lastScrape = null

\* C20: a cycle that answered 200 while initDataDir was running keeps its
\* effect: once initDataDir has returned (and no later cycle has started or
\* merged), the catalog holds every posting appended so far and the record
\* of the cycle's source is as the cycle left it.
C20_StartupKeepsWork ==
    (/\ initPc = "done"
     /\ early.set
     /\ stores = early.stores
     /\ clock = early.clock)
    => /\ \A p \in appended : p \in Range(projectsCache)
       /\ early.source \in DOMAIN sourcesCache
       /\ sourcesCache[early.source] = early.record

=============================================================================
